---- MODULE Spec2Model ----
\* Model of the tokkenAPI server (src/index.js): user registration, login,
\* JWT issuance and the authenticateToken guard in front of the product and
\* user listings.  Every request is a process; every `await` in a handler
\* is a point where other requests may run.
EXTENDS Integers, Sequences, FiniteSets, TLC

\* ---------------------------------------------------------------- bounds
MaxReq == 2
MaxTicks == 1
MaxProducts == 2

\* ------------------------------------------------------------- constants
SECRET_KEY == "your_secret_key"
OtherKey == "attacker_key"
ExpiresIn == 3600
MsPerSecond == 1000

ReqIds == 1..MaxReq

\* Clock advances (milliseconds) the model lets pass between two steps.
TickSteps == {3599000, 3599001}

\* Clock readings at which the server may come up.
StartTimes == {999}

\* ------------------------------------------------- JavaScript value model
\* `undefined` (an absent header, a missing array element, req.user before
\* the guard ran).
Undefined == [undefined |-> TRUE]

IsUndefined(v) == "undefined" \in DOMAIN v

\* A piece of text that is not a JWT (a scheme word, garbage, "").
Word(s) == [raw |-> s]

\* !field for a string field of a JSON body: absent or "".
FalsyStr(body, f) == IF f \in DOMAIN body THEN body[f] = "" ELSE TRUE

\* Variant: only an absent number counts as missing.
FalsyNumAbsentOnly(body, f) == f \notin DOMAIN body

\* !field for a number field of a JSON body: absent or 0.
FalsyNum(body, f) == IF f \in DOMAIN body THEN body[f] = 0 ELSE TRUE

\* ----------------------------------------------------------- Token codec
\* HMAC signature of the claims under a key: equal exactly when key and
\* claims are equal.
Signature(claims, key) == [key |-> key, claims |-> claims]

SecondsOf(ms) == ms \div MsPerSecond

\* A JWT string: the claims and their signature.
Token(claims, key) == [claims |-> claims, sig |-> Signature(claims, key)]

\* jwt.sign(payload, key, { expiresIn: '1h' }): iat is the clock in whole
\* seconds, exp is iat plus one hour.
jwtSign(payload, key, nowMs) ==
    Token([email |-> payload.email,
           iat |-> SecondsOf(nowMs),
           exp |-> SecondsOf(nowMs) + ExpiresIn], key)

IsJwt(v) == "claims" \in DOMAIN v

VerifyFailed == [err |-> TRUE, user |-> Undefined]

\* Variant: exp is not looked at.
jwtVerifyNoExpiry(token, key, nowMs) ==
    IF ~IsJwt(token) THEN VerifyFailed
    ELSE IF token.sig # Signature(token.claims, key) THEN VerifyFailed
    ELSE [err |-> FALSE, user |-> token.claims]

\* Variant: the signature is not looked at.
jwtVerifyNoSignature(token, key, nowMs) ==
    IF ~IsJwt(token) THEN VerifyFailed
    ELSE IF SecondsOf(nowMs) >= token.claims.exp THEN VerifyFailed
    ELSE [err |-> FALSE, user |-> token.claims]

\* jwt.verify(token, key, callback): the callback's (err, user).
\* Fails on a token that is absent or not a three-part JWT, on a signature
\* that does not match, and from the second `exp` on.
jwtVerify(token, key, nowMs) ==
    IF ~IsJwt(token) THEN VerifyFailed
    ELSE IF token.sig # Signature(token.claims, key) THEN VerifyFailed
    ELSE IF SecondsOf(nowMs) >= token.claims.exp THEN VerifyFailed
    ELSE [err |-> FALSE, user |-> token.claims]

\* ------------------------------------------------------ Credential store
\* Variant: the lookup never finds a record.
FindOneByEmailNever(us, email) == [found |-> FALSE, user |-> Undefined]

\* User.findOne({ email }): the first record with that email, or null.
FindOneByEmail(us, email) ==
    IF \E i \in 1..Len(us) : us[i].email = email
    THEN LET i == CHOOSE k \in 1..Len(us) :
                    /\ us[k].email = email
                    /\ \A j \in 1..(k - 1) : us[j].email # email
         IN [found |-> TRUE, user |-> us[i]]
    ELSE [found |-> FALSE, user |-> Undefined]

\* User.findOne({ email, password }): the first record matching both.
FindOneByEmailPassword(us, email, password) ==
    IF \E i \in 1..Len(us) : us[i].email = email /\ us[i].password = password
    THEN LET i == CHOOSE k \in 1..Len(us) :
                    /\ us[k].email = email /\ us[k].password = password
                    /\ \A j \in 1..(k - 1) :
                           ~(us[j].email = email /\ us[j].password = password)
         IN [found |-> TRUE, user |-> us[i]]
    ELSE [found |-> FALSE, user |-> Undefined]

\* Variant: the collection has no unique index.
UserSaveNoIndex(us, doc) == [ok |-> TRUE, users |-> Append(us, doc)]

\* newUser.save() on a collection whose email field is `unique: true`: the
\* insert is refused (duplicate key error thrown) when a record with the
\* same email is stored, and appends the document otherwise.
UserSave(us, doc) ==
    IF \E i \in 1..Len(us) : us[i].email = doc.email
    THEN [ok |-> FALSE, users |-> us]
    ELSE [ok |-> TRUE, users |-> Append(us, doc)]

\* Variant: the records are returned whole.
SelectEverything(us) == us

\* User.find().select('-password')
SelectMinusPassword(us) ==
    [i \in 1..Len(us) |-> [name |-> us[i].name, email |-> us[i].email]]

\* ---------------------------------------------------------------- state
\* now      the server clock, in milliseconds (Date.now())
\* ticks    how many times the clock has moved (bounds the run)
\* users    the User collection, in insertion order
\* products the Product collection, in insertion order
\* issued   the tokens clients hold: every token a login response carried,
\*          with the clock reading at which it was signed
\* reqs     the requests in flight, one per slot (req, res and the handler's
\*          locals and position)
\* last     the request whose code ran in the step just taken, as that step
\*          left it (a free slot after a step of the clock)
\* okLog    the emails of the registrations answered 201, in order
VARIABLES now, ticks, users, products, issued, reqs, last, okLog

vars == <<now, ticks, users, products, issued, reqs, last, okLog>>

NoRes == [status |-> 0]

\* Variant: the 500 response carries the cause of the fault.
ServerErrorWithCause ==
    [status |-> 500, message |-> "Internal server error",
     error |-> "MongoNetworkError"]

\* res.status(500).json({ message: 'Internal server error' })
ServerError == [status |-> 500, message |-> "Internal server error"]

UserExists == [status |-> 400, message |-> "User already exists"]

\* A free slot.  Beside the request's own data (kind, header, body, user,
\* doc, res) a request carries bookkeeping for the properties below:
\*   sent     responses sent            ops    store operations completed
\*   handler  route handler invoked     fault  a store operation faulted
\*   known    the email was registered when the request was looked at
\*   raced    another Register for the same email was in flight with it
IdleReq ==
    [kind |-> "none", pc |-> "idle", header |-> Undefined, body |-> Undefined,
     user |-> Undefined, doc |-> Undefined, res |-> NoRes,
     sent |-> 0, ops |-> 0, handler |-> FALSE, fault |-> FALSE,
     known |-> FALSE, raced |-> FALSE]

Init ==
    /\ now \in StartTimes
    /\ ticks = 0
    /\ users = <<>>
    /\ products = <<>>
    /\ issued = {}
    /\ reqs = [r \in ReqIds |-> IdleReq]
    /\ last = IdleReq
    /\ okLog = <<>>

\* res.status(s).json(fields)
Respond(req, fields) ==
    [req EXCEPT !.res = fields, !.sent = @ + 1, !.pc = "done"]

\* A request enters the server and takes the lowest free slot.
CanArrive(r) ==
    /\ reqs[r].pc = "idle"
    /\ \A q \in ReqIds : q < r => reqs[q].pc # "idle"

\* The slots after request r took the step that left it as `req`: a request
\* that has responded leaves its slot.
Settle(rs, r, req) ==
    [rs EXCEPT ![r] = IF req.pc = "done" THEN IdleReq ELSE req]

\* The clock moves.
Tick(d) ==
    /\ ticks < MaxTicks
    /\ now' = now + d
    /\ ticks' = ticks + 1
    /\ last' = IdleReq
    /\ UNCHANGED <<users, products, issued, reqs, okLog>>

\* ------------------------------------------------------------- /register
RegisterBodies ==
    { [name |-> "Ann", email |-> "a@x.com", password |-> "pw1"],
      [name |-> "Bob", email |-> "a@x.com", password |-> "pw2"],
      [name |-> "", email |-> "a@x.com", password |-> "pw1"],
      [name |-> "Ann", password |-> "pw1"] }

\* Variant: the name is not looked at.
RegisterValidNoName(body) ==
    ~(FalsyStr(body, "email") \/ FalsyStr(body, "password"))

\* !name || !email || !password, negated
RegisterValid(body) ==
    ~(FalsyStr(body, "name") \/ FalsyStr(body, "email")
      \/ FalsyStr(body, "password"))

InFlightRegister(rs, email) ==
    { q \in ReqIds : /\ rs[q].kind = "register"
                     /\ rs[q].pc \in {"find", "save"}
                     /\ rs[q].body.email = email }

\* app.post('/register'): up to the first await.
RegisterStart(r, body) ==
    /\ CanArrive(r)
    /\ LET valid == RegisterValid(body)
           rivals == IF valid THEN InFlightRegister(reqs, body.email) ELSE {}
           req0 == [IdleReq EXCEPT
                      !.kind = "register", !.body = body, !.handler = TRUE,
                      !.known = valid /\ \E i \in 1..Len(okLog) :
                                             okLog[i] = body.email,
                      !.raced = rivals # {}]
           req == IF ~valid
                  THEN Respond(req0, [status |-> 400,
                         message |-> "Name, email, and password are required"])
                  ELSE [req0 EXCEPT !.pc = "find"]
           marked == [q \in ReqIds |->
                        IF q \in rivals THEN [reqs[q] EXCEPT !.raced = TRUE]
                        ELSE reqs[q]]
       IN /\ reqs' = Settle(marked, r, req)
          /\ last' = req
    /\ UNCHANGED <<now, ticks, users, products, issued, okLog>>

\* await User.findOne({ email }) completes; the handler runs to the next
\* await (the save) or to its response.
RegisterFound(r, fault) ==
    /\ reqs[r].kind = "register" /\ reqs[r].pc = "find"
    /\ LET req0 == [reqs[r] EXCEPT !.ops = @ + 1, !.fault = fault]
           userExists == FindOneByEmail(users, req0.body.email)
           req == IF fault
                  THEN Respond(req0, ServerError)
                  ELSE IF userExists.found
                  THEN Respond(req0, UserExists)
                  ELSE [req0 EXCEPT !.pc = "save",
                            !.doc = [name |-> req0.body.name,
                                     email |-> req0.body.email,
                                     password |-> req0.body.password]]
       IN /\ reqs' = Settle(reqs, r, req)
          /\ last' = req
    /\ UNCHANGED <<now, ticks, users, products, issued, okLog>>

\* await newUser.save() completes: a thrown error (store fault or duplicate
\* key) lands in the catch block.
RegisterSaved(r, fault) ==
    /\ reqs[r].kind = "register" /\ reqs[r].pc = "save"
    /\ LET req0 == [reqs[r] EXCEPT !.ops = @ + 1, !.fault = fault]
           saved == UserSave(users, req0.doc)
           ok == ~fault /\ saved.ok
           req == IF ok
                  THEN Respond(req0, [status |-> 201,
                                 message |-> "User registered successfully"])
                  ELSE Respond(req0, ServerError)
       IN /\ users' = IF ok THEN saved.users ELSE users
          /\ okLog' = IF ok THEN Append(okLog, req0.doc.email) ELSE okLog
          /\ reqs' = Settle(reqs, r, req)
          /\ last' = req
    /\ UNCHANGED <<now, ticks, products, issued>>

\* ---------------------------------------------------------------- /login
LoginBodies ==
    { [email |-> "a@x.com", password |-> "pw1"],
      [email |-> "a@x.com", password |-> "pw2"],
      [email |-> "b@x.com", password |-> "pw2"],
      [email |-> "a@x.com", password |-> ""] }

LoginValid(body) == ~(FalsyStr(body, "email") \/ FalsyStr(body, "password"))

\* app.post('/login'): up to the first await.
LoginStart(r, body) ==
    /\ CanArrive(r)
    /\ LET req0 == [IdleReq EXCEPT
                      !.kind = "login", !.body = body, !.handler = TRUE]
           req == IF ~LoginValid(body)
                  THEN Respond(req0, [status |-> 400,
                         message |-> "Email and password are required"])
                  ELSE [req0 EXCEPT !.pc = "find"]
       IN /\ reqs' = Settle(reqs, r, req)
          /\ last' = req
    /\ UNCHANGED <<now, ticks, users, products, issued, okLog>>

LoginRejected == [status |-> 401, message |-> "Invalid email or password"]

\* Variant: an unknown email and a wrong password are told apart.
LoginOutcomeLeaky(us, body, nowMs) ==
    IF ~FindOneByEmail(us, body.email).found
    THEN [status |-> 404, message |-> "User not found"]
    ELSE IF ~FindOneByEmailPassword(us, body.email, body.password).found
    THEN [status |-> 401, message |-> "Wrong password"]
    ELSE [status |-> 200,
          token |-> jwtSign([email |-> body.email], SECRET_KEY, nowMs)]

\* Variant: the token is signed for the record's name.
LoginOutcomeSignsName(us, body, nowMs) ==
    LET user == FindOneByEmailPassword(us, body.email, body.password)
    IN IF ~user.found
       THEN LoginRejected
       ELSE [status |-> 200,
             token |-> jwtSign([email |-> user.user.name], SECRET_KEY, nowMs)]

\* What /login answers once its lookup has returned: 401 when no record
\* matches both fields, else 200 with a token signed for the record's email.
LoginOutcome(us, body, nowMs) ==
    LET user == FindOneByEmailPassword(us, body.email, body.password)
    IN IF ~user.found
       THEN LoginRejected
       ELSE [status |-> 200,
             token |-> jwtSign([email |-> user.user.email], SECRET_KEY, nowMs)]

\* Variant: a successful login rewrites the matched record.
LoginFoundTouchesUser(r, fault) ==
    /\ reqs[r].kind = "login" /\ reqs[r].pc = "find"
    /\ LET req0 == [reqs[r] EXCEPT
                      !.ops = @ + 1, !.fault = fault,
                      !.known = FindOneByEmail(users, reqs[r].body.email).found]
           out == LoginOutcome(users, req0.body, now)
           req == IF fault
                  THEN Respond(req0, ServerError)
                  ELSE Respond(req0, out)
       IN /\ issued' = IF ~fault /\ out.status = 200
                       THEN issued \cup {[token |-> out.token, at |-> now]}
                       ELSE issued
          /\ users' = IF ~fault /\ out.status = 200
                      THEN [i \in 1..Len(users) |->
                              IF users[i].email = req0.body.email
                              THEN [users[i] EXCEPT !.name = "seen"]
                              ELSE users[i]]
                      ELSE users
          /\ reqs' = Settle(reqs, r, req)
          /\ last' = req
    /\ UNCHANGED <<now, ticks, products, okLog>>

\* await User.findOne({ email, password }) completes; the token is signed
\* and sent in the same turn.
LoginFound(r, fault) ==
    /\ reqs[r].kind = "login" /\ reqs[r].pc = "find"
    /\ LET req0 == [reqs[r] EXCEPT
                      !.ops = @ + 1, !.fault = fault,
                      !.known = FindOneByEmail(users, reqs[r].body.email).found]
           out == LoginOutcome(users, req0.body, now)
           req == IF fault
                  THEN Respond(req0, ServerError)
                  ELSE Respond(req0, out)
       IN /\ issued' = IF ~fault /\ out.status = 200
                       THEN issued \cup {[token |-> out.token, at |-> now]}
                       ELSE issued
          /\ reqs' = Settle(reqs, r, req)
          /\ last' = req
    /\ UNCHANGED <<now, ticks, users, products, okLog>>

\* Registration and login alone, the clock standing still.
NextAuth ==
    \/ \E r \in ReqIds, body \in RegisterBodies : RegisterStart(r, body)
    \/ \E r \in ReqIds, fault \in BOOLEAN : RegisterFound(r, fault)
    \/ \E r \in ReqIds, fault \in BOOLEAN : RegisterSaved(r, fault)
    \/ \E r \in ReqIds, body \in LoginBodies : LoginStart(r, body)
    \/ \E r \in ReqIds, fault \in BOOLEAN : LoginFound(r, fault)

SpecAuth == Init /\ [][NextAuth]_vars

\* ------------------------------------------------------------ Access guard
\* The value of the Authorization header: its text as the list of its
\* space-separated pieces ("" is the empty list).
Header(parts) == [text |-> parts]

\* authHeader.split(' ')
Split(h) == IF h.text = <<>> THEN <<Word("")>> ELSE h.text

\* !authHeader
FalsyHeader(h) == IF IsUndefined(h) THEN TRUE ELSE h.text = <<>>

\* Variant: the last piece is taken, so a token sent alone is read.
TokenOfLastPart(h) == Split(h)[Len(Split(h))]

\* authHeader.split(' ')[1]
TokenOf(h) == IF Len(Split(h)) >= 2 THEN Split(h)[2] ELSE Undefined

TokenRequired == [status |-> 401, message |-> "Token required"]

InvalidToken == [status |-> 403, message |-> "Invalid token"]

\* Variant: a verification error is answered like a missing header.
authenticateTokenAll401(header, nowMs) ==
    IF FalsyHeader(header)
    THEN [res |-> TokenRequired, next |-> FALSE, user |-> Undefined]
    ELSE LET v == jwtVerify(TokenOf(header), SECRET_KEY, nowMs)
         IN IF v.err
            THEN [res |-> TokenRequired, next |-> FALSE, user |-> Undefined]
            ELSE [res |-> NoRes, next |-> TRUE, user |-> v.user]

\* Variant: the 403 branch falls through to next().
authenticateTokenNoReturn(header, nowMs) ==
    IF FalsyHeader(header)
    THEN [res |-> TokenRequired, next |-> FALSE, user |-> Undefined]
    ELSE LET v == jwtVerify(TokenOf(header), SECRET_KEY, nowMs)
         IN IF v.err
            THEN [res |-> InvalidToken, next |-> TRUE, user |-> Undefined]
            ELSE [res |-> NoRes, next |-> TRUE, user |-> v.user]

\* Variant: an expired token is told apart from the other failures.
authenticateTokenTellsExpiry(header, nowMs) ==
    IF FalsyHeader(header)
    THEN [res |-> TokenRequired, next |-> FALSE, user |-> Undefined]
    ELSE LET v == jwtVerify(TokenOf(header), SECRET_KEY, nowMs)
         IN IF v.err
            THEN [res |-> IF ~jwtVerifyNoExpiry(TokenOf(header), SECRET_KEY,
                                                nowMs).err
                          THEN [status |-> 401, message |-> "Token expired"]
                          ELSE InvalidToken,
                  next |-> FALSE, user |-> Undefined]
            ELSE [res |-> NoRes, next |-> TRUE, user |-> v.user]

\* Variant: the server keeps a registry of the tokens it gave out and
\* accepts, for each email, only the one signed last.
authenticateTokenLatestOnly(header, nowMs) ==
    IF FalsyHeader(header)
    THEN [res |-> TokenRequired, next |-> FALSE, user |-> Undefined]
    ELSE LET v == jwtVerify(TokenOf(header), SECRET_KEY, nowMs)
             superseded ==
                 \E g \in issued :
                     /\ g.token.claims.email = v.user.email
                     /\ g.token.claims.iat > v.user.iat
         IN IF v.err
            THEN [res |-> InvalidToken, next |-> FALSE, user |-> Undefined]
            ELSE IF superseded
            THEN [res |-> InvalidToken, next |-> FALSE, user |-> Undefined]
            ELSE [res |-> NoRes, next |-> TRUE, user |-> v.user]

\* Variant: a scheme word other than "Bearer" is refused.
authenticateTokenBearerOnly(header, nowMs) ==
    IF FalsyHeader(header)
    THEN [res |-> TokenRequired, next |-> FALSE, user |-> Undefined]
    ELSE LET v == jwtVerify(TokenOf(header), SECRET_KEY, nowMs)
         IN IF v.err \/ Split(header)[1] # Word("Bearer")
            THEN [res |-> InvalidToken, next |-> FALSE, user |-> Undefined]
            ELSE [res |-> NoRes, next |-> TRUE, user |-> v.user]

\* authenticateToken(req, res, next): the response it sends (NoRes when
\* none), whether it calls next(), and the req.user it sets.
authenticateToken(header, nowMs) ==
    IF FalsyHeader(header)
    THEN [res |-> TokenRequired, next |-> FALSE, user |-> Undefined]
    ELSE LET v == jwtVerify(TokenOf(header), SECRET_KEY, nowMs)
         IN IF v.err
            THEN [res |-> InvalidToken, next |-> FALSE, user |-> Undefined]
            ELSE [res |-> NoRes, next |-> TRUE, user |-> v.user]

\* What a client can put in the header: nothing, an empty value, a scheme
\* word alone, and, for every token it holds, the token after "Bearer",
\* after another scheme word, with no scheme, with its claims altered, and
\* re-signed under a key of its own; also text that is no JWT.
\* 'Bearer <token>'
Bearer(tok) == Header(<<Word("Bearer"), tok>>)

\* The tokens clients hold.
Held == { g.token : g \in issued }

WithEmail(tok, email) == [tok EXCEPT !.claims.email = email]

WithLaterExp(tok) == [tok EXCEPT !.claims.exp = @ + ExpiresIn]

Resigned(tok, key) == [tok EXCEPT !.sig = Signature(tok.claims, key)]

Headers ==
    {Undefined, Header(<<>>), Header(<<Word("Bearer")>>),
     Bearer(Word("garbage"))}
    \cup { Bearer(t) : t \in Held }
    \cup { Header(<<Word("Basic"), t>>) : t \in Held }
    \cup { Header(<<Word("Basic"), Resigned(t, OtherKey)>>) : t \in Held }
    \cup { Header(<<t>>) : t \in Held }
    \cup { Bearer(WithEmail(t, "root@x.com")) : t \in Held }
    \cup { Bearer(WithLaterExp(t)) : t \in Held }
    \cup { Bearer(Resigned(WithLaterExp(t), OtherKey)) :
             t \in Held }

TokenHeaders ==
    {Undefined, Header(<<Word("Bearer")>>), Bearer(Word("garbage"))}
    \cup { Bearer(t) : t \in Held }
    \cup { Bearer(WithEmail(t, "root@x.com")) : t \in Held }
    \cup { Bearer(WithLaterExp(t)) : t \in Held }
    \cup { Bearer(Resigned(WithLaterExp(t), OtherKey)) :
             t \in Held }

\* The request as the guard leaves it.
Guarded(kind, header, body) ==
    LET g == authenticateToken(header, now)
        req0 == [IdleReq EXCEPT !.kind = kind, !.header = header,
                                !.body = body, !.user = g.user]
    IN [guard |-> g,
        req |-> IF g.res = NoRes THEN req0 ELSE Respond(req0, g.res)]

\* --------------------------------------------------------------- /product
ProductBodies ==
    { [name |-> "pen", price |-> 5, addedBy |-> "mallory@x.com"],
      [name |-> "pen", price |-> 0],
      [price |-> 5] }

InFlightProduct ==
    { q \in ReqIds : reqs[q].kind = "product" /\ reqs[q].pc = "save" }

\* Variant: addedBy is taken from the body when it has one.
ProductHandlerFromBody(req0) ==
    LET req == [req0 EXCEPT !.handler = TRUE]
    IN IF FalsyStr(req.body, "name") \/ FalsyNum(req.body, "price")
       THEN Respond(req, [status |-> 400,
                          message |-> "Product name and price are required"])
       ELSE IF IsUndefined(req.user)
       THEN Respond(req, ServerError)
       ELSE [req EXCEPT !.pc = "save",
                        !.doc = [name |-> req.body.name,
                                 price |-> req.body.price,
                                 addedBy |-> IF "addedBy" \in DOMAIN req.body
                                             THEN req.body.addedBy
                                             ELSE req.user.email]]

\* The route handler of app.post('/product'), up to its await.
ProductHandler(req0) ==
    LET req == [req0 EXCEPT !.handler = TRUE]
    IN IF FalsyStr(req.body, "name") \/ FalsyNum(req.body, "price")
       THEN Respond(req, [status |-> 400,
                          message |-> "Product name and price are required"])
       ELSE IF IsUndefined(req.user)
       THEN Respond(req, ServerError)
       ELSE [req EXCEPT !.pc = "save",
                        !.doc = [name |-> req.body.name,
                                 price |-> req.body.price,
                                 addedBy |-> req.user.email]]

\* Variant: the fields are validated before the guard is asked.
ProductStartValidatesFirst(r, header, body) ==
    /\ CanArrive(r)
    /\ Len(products) + Cardinality(InFlightProduct) < MaxProducts
    /\ LET g == Guarded("product", header, body)
           req0 == [IdleReq EXCEPT !.kind = "product", !.header = header,
                                   !.body = body]
           req == IF FalsyStr(body, "name") \/ FalsyNum(body, "price")
                  THEN Respond(req0,
                         [status |-> 400,
                          message |-> "Product name and price are required"])
                  ELSE IF g.guard.next THEN ProductHandler(g.req) ELSE g.req
       IN /\ reqs' = Settle(reqs, r, req)
          /\ last' = req
    /\ UNCHANGED <<now, ticks, users, products, issued, okLog>>

\* app.post('/product', authenticateToken, ...): the guard and, when it
\* calls next(), the handler up to its await.
ProductStart(r, header, body) ==
    /\ CanArrive(r)
    /\ Len(products) + Cardinality(InFlightProduct) < MaxProducts
    /\ LET g == Guarded("product", header, body)
           req == IF g.guard.next THEN ProductHandler(g.req) ELSE g.req
       IN /\ reqs' = Settle(reqs, r, req)
          /\ last' = req
    /\ UNCHANGED <<now, ticks, users, products, issued, okLog>>

\* Variant: the document is stored although the save reports a fault.
ProductSavedPartial(r, fault) ==
    /\ reqs[r].kind = "product" /\ reqs[r].pc = "save"
    /\ LET req0 == [reqs[r] EXCEPT !.ops = @ + 1, !.fault = fault]
           req == IF fault
                  THEN Respond(req0, ServerError)
                  ELSE Respond(req0, [status |-> 201,
                                      message |-> "Product added successfully",
                                      product |-> req0.doc])
       IN /\ products' = Append(products, req0.doc)
          /\ reqs' = Settle(reqs, r, req)
          /\ last' = req
    /\ UNCHANGED <<now, ticks, users, issued, okLog>>

\* Variant: the identity is kept in one place for all requests, so a save
\* reads the identity of another request in flight when there is one.
ProductSavedSharedIdentity(r, fault) ==
    /\ reqs[r].kind = "product" /\ reqs[r].pc = "save"
    /\ LET others == { q \in ReqIds : /\ q # r
                                      /\ reqs[q].kind = "product"
                                      /\ reqs[q].pc = "save" }
           who == IF others = {} THEN reqs[r].user
                  ELSE reqs[CHOOSE q \in others : TRUE].user
           req0 == [reqs[r] EXCEPT !.ops = @ + 1, !.fault = fault,
                                   !.doc.addedBy = who.email]
           req == IF fault
                  THEN Respond(req0, ServerError)
                  ELSE Respond(req0, [status |-> 201,
                                      message |-> "Product added successfully",
                                      product |-> req0.doc])
       IN /\ products' = IF fault THEN products ELSE Append(products, req0.doc)
          /\ reqs' = Settle(reqs, r, req)
          /\ last' = req
    /\ UNCHANGED <<now, ticks, users, issued, okLog>>

\* await newProduct.save() completes.
ProductSaved(r, fault) ==
    /\ reqs[r].kind = "product" /\ reqs[r].pc = "save"
    /\ LET req0 == [reqs[r] EXCEPT !.ops = @ + 1, !.fault = fault]
           req == IF fault
                  THEN Respond(req0, ServerError)
                  ELSE Respond(req0, [status |-> 201,
                                      message |-> "Product added successfully",
                                      product |-> req0.doc])
       IN /\ products' = IF fault THEN products ELSE Append(products, req0.doc)
          /\ reqs' = Settle(reqs, r, req)
          /\ last' = req
    /\ UNCHANGED <<now, ticks, users, issued, okLog>>

\* ------------------------------------------------------ /products, /users
\* The route handler of a listing, up to its await.
ListHandler(req0) == [req0 EXCEPT !.handler = TRUE, !.pc = "find"]

\* app.get('/products', authenticateToken, ...) and
\* app.get('/users', authenticateToken, ...): the guard and, when it calls
\* next(), the handler up to its await.
ListStart(r, kind, header) ==
    /\ CanArrive(r)
    /\ LET g == Guarded(kind, header, Undefined)
           req == IF g.guard.next THEN ListHandler(g.req) ELSE g.req
       IN /\ reqs' = Settle(reqs, r, req)
          /\ last' = req
    /\ UNCHANGED <<now, ticks, users, products, issued, okLog>>

\* await Product.find() completes.
ProductsFound(r, fault) ==
    /\ reqs[r].kind = "products" /\ reqs[r].pc = "find"
    /\ LET req0 == [reqs[r] EXCEPT !.ops = @ + 1, !.fault = fault]
           req == IF fault
                  THEN Respond(req0, ServerError)
                  ELSE Respond(req0, [status |-> 200, list |-> products])
       IN /\ reqs' = Settle(reqs, r, req)
          /\ last' = req
    /\ UNCHANGED <<now, ticks, users, products, issued, okLog>>

\* await User.find().select('-password') completes.
UsersFound(r, fault) ==
    /\ reqs[r].kind = "users" /\ reqs[r].pc = "find"
    /\ LET req0 == [reqs[r] EXCEPT !.ops = @ + 1, !.fault = fault]
           req == IF fault
                  THEN Respond(req0, ServerError)
                  ELSE Respond(req0, [status |-> 200,
                                      list |-> SelectMinusPassword(users)])
       IN /\ reqs' = Settle(reqs, r, req)
          /\ last' = req
    /\ UNCHANGED <<now, ticks, users, products, issued, okLog>>

\* ------------------------------------------------------- the whole server
CoreRegisterBodies ==
    { [name |-> "Ann", email |-> "a@x.com", password |-> "pw1"] }

CoreLoginBodies ==
    { [email |-> "a@x.com", password |-> "pw1"] }

\* The headers of the whole-server runs: none, a held token after "Bearer",
\* and a held token re-signed under the client's own key.
CoreHeaders ==
    {Undefined}
    \cup { Bearer(t) : t \in Held }
    \cup { Bearer(Resigned(t, OtherKey)) : t \in Held }

\* Every endpoint, one user, the store faulting at will, every header shape
\* in front of the listings; the clock stands still.
NextServer ==
    \/ \E r \in ReqIds, body \in CoreRegisterBodies : RegisterStart(r, body)
    \/ \E r \in ReqIds, fault \in BOOLEAN : RegisterFound(r, fault)
    \/ \E r \in ReqIds, fault \in BOOLEAN : RegisterSaved(r, fault)
    \/ \E r \in ReqIds, body \in CoreLoginBodies : LoginStart(r, body)
    \/ \E r \in ReqIds, fault \in BOOLEAN : LoginFound(r, fault)
    \/ \E r \in ReqIds, header \in CoreHeaders, body \in ProductBodies :
           ProductStart(r, header, body)
    \/ \E r \in ReqIds, fault \in BOOLEAN : ProductSaved(r, fault)
    \/ \E r \in ReqIds, kind \in {"products", "users"}, header \in Headers :
           ListStart(r, kind, header)
    \/ \E r \in ReqIds, fault \in BOOLEAN : ProductsFound(r, fault)
    \/ \E r \in ReqIds, fault \in BOOLEAN : UsersFound(r, fault)

SpecServer == Init /\ [][NextServer]_vars

\* Every endpoint and the clock.
Next ==
    \/ \E d \in TickSteps : Tick(d)
    \/ \E r \in ReqIds, body \in CoreRegisterBodies : RegisterStart(r, body)
    \/ \E r \in ReqIds, fault \in BOOLEAN : RegisterFound(r, fault)
    \/ \E r \in ReqIds, fault \in BOOLEAN : RegisterSaved(r, fault)
    \/ \E r \in ReqIds, body \in CoreLoginBodies : LoginStart(r, body)
    \/ \E r \in ReqIds, fault \in BOOLEAN : LoginFound(r, fault)
    \/ \E r \in ReqIds, header \in CoreHeaders, body \in ProductBodies :
           ProductStart(r, header, body)
    \/ \E r \in ReqIds, fault \in BOOLEAN : ProductSaved(r, fault)
    \/ \E r \in ReqIds, kind \in {"products", "users"},
          header \in CoreHeaders : ListStart(r, kind, header)
    \/ \E r \in ReqIds, fault \in BOOLEAN : ProductsFound(r, fault)
    \/ \E r \in ReqIds, fault \in BOOLEAN : UsersFound(r, fault)

Spec == Init /\ [][Next]_vars

\* The token's life: one user registers and logs in, the clock moves, and
\* the guard (in front of GET /products) sees every header a client can
\* build; the store does not fault.
NextToken ==
    \/ \E d \in TickSteps : Tick(d)
    \/ \E r \in ReqIds :
           RegisterStart(r, [name |-> "Ann", email |-> "a@x.com",
                             password |-> "pw1"])
    \/ \E r \in ReqIds : RegisterFound(r, FALSE)
    \/ \E r \in ReqIds : RegisterSaved(r, FALSE)
    \/ \E r \in ReqIds :
           LoginStart(r, [email |-> "a@x.com", password |-> "pw1"])
    \/ \E r \in ReqIds : LoginFound(r, FALSE)
    \/ \E r \in ReqIds, header \in TokenHeaders :
           ListStart(r, "products", header)
    \/ \E r \in ReqIds : ProductsFound(r, FALSE)

SpecToken == Init /\ [][NextToken]_vars

\* Two users: each registers and logs in, and POST /product requests
\* carrying their tokens run side by side; the store does not fault and the
\* clock stands still.
PairRegisterBodies ==
    { [name |-> "Ann", email |-> "a@x.com", password |-> "pw1"],
      [name |-> "Bob", email |-> "b@x.com", password |-> "pw2"] }

PairLoginBodies ==
    { [email |-> "a@x.com", password |-> "pw1"],
      [email |-> "b@x.com", password |-> "pw2"] }

PairProductBodies == { [name |-> "pen", price |-> 5] }

NextPair ==
    \/ \E r \in ReqIds, body \in PairRegisterBodies : RegisterStart(r, body)
    \/ \E r \in ReqIds : RegisterFound(r, FALSE)
    \/ \E r \in ReqIds : RegisterSaved(r, FALSE)
    \/ \E r \in ReqIds, body \in PairLoginBodies : LoginStart(r, body)
    \/ \E r \in ReqIds : LoginFound(r, FALSE)
    \/ \E r \in ReqIds, t \in Held, body \in PairProductBodies :
           ProductStart(r, Bearer(t), body)
    \/ \E r \in ReqIds : ProductSaved(r, FALSE)

SpecPair == Init /\ [][NextPair]_vars

\* A session over time: one user registers and logs in, again and again as
\* the clock moves, Products are stored and listed under the tokens given
\* out; the store does not fault.
SessionProductBodies == { [name |-> "pen", price |-> 5] }

NextSession ==
    \/ \E d \in TickSteps : Tick(d)
    \/ \E r \in ReqIds, body \in CoreRegisterBodies : RegisterStart(r, body)
    \/ \E r \in ReqIds : RegisterFound(r, FALSE)
    \/ \E r \in ReqIds : RegisterSaved(r, FALSE)
    \/ \E r \in ReqIds, body \in CoreLoginBodies : LoginStart(r, body)
    \/ \E r \in ReqIds : LoginFound(r, FALSE)
    \/ \E r \in ReqIds, t \in Held, body \in SessionProductBodies :
           ProductStart(r, Bearer(t), body)
    \/ \E r \in ReqIds : ProductSaved(r, FALSE)
    \/ \E r \in ReqIds, t \in Held : ListStart(r, "products", Bearer(t))
    \/ \E r \in ReqIds : ProductsFound(r, FALSE)

SpecSession == Init /\ [][NextSession]_vars

\* ================================================================ claims
Done(req, kind) == req.kind = kind /\ req.pc = "done"

\* C1: in every reachable state no two User records have the same email.
C1_UniqueEmails ==
    \A i, j \in 1..Len(users) : i # j => users[i].email # users[j].email

\* Two registrations for one email both passed the pre-check; one is stored
\* and the other's insert has just been refused.
C1_Witness ==
    /\ Done(last, "register") /\ last.ops = 2 /\ ~last.fault
    /\ last.res.status # 201
    /\ Len(users) = 1 /\ users[1].email = last.doc.email

\* C2: a Register whose insert the uniqueness constraint refuses, after it
\* passed the pre-check in a race, answers 400 'User already exists' like a
\* sequential duplicate.
C2_RaceLoserGetsConflict ==
    (/\ Done(last, "register") /\ last.ops = 2 /\ ~last.fault
     /\ last.res.status # 201)
    => last.res = UserExists

\* C3: with valid fields and no store fault, each email gets at most one
\* 201; a Register issued after a 201 for its email answers 400 'User
\* already exists' whatever its name and password; a Register for an email
\* with no 201 yet, running without a rival for that email, answers 201.
C3_RegisterOnce ==
    /\ \A i, j \in 1..Len(okLog) : i # j => okLog[i] # okLog[j]
    /\ (Done(last, "register") /\ RegisterValid(last.body) /\ ~last.fault)
       => /\ last.known => last.res = UserExists
          /\ (~last.known /\ ~last.raced) => last.res.status = 201

\* A second Register for a registered email, with another name and another
\* password, has just been answered 'User already exists'.
C3_Witness ==
    /\ Done(last, "register") /\ last.known /\ ~last.fault
    /\ last.res = UserExists
    /\ Len(users) = 1
    /\ users[1].email = last.body.email
    /\ users[1].name # last.body.name
    /\ users[1].password # last.body.password

NoMatch(body) ==
    ~\E i \in 1..Len(users) :
        users[i].email = body.email /\ users[i].password = body.password

\* C5: a Login that matches no record gets the one response 401 'Invalid
\* email or password', with no token, whether or not its email is
\* registered.
C5_LoginFailureUniform ==
    (Done(last, "login") /\ LoginValid(last.body) /\ ~last.fault
     /\ NoMatch(last.body))
    => /\ last.known => last.res = LoginRejected
       /\ ~last.known => last.res = LoginRejected

\* A Login with a registered email and a wrong password has just failed.
C5_Witness ==
    /\ Done(last, "login") /\ ~last.fault /\ last.known
    /\ NoMatch(last.body)
    /\ last.res = LoginRejected

\* ------------------------------------------------------- token and guard
Protected == {"product", "products", "users"}

\* The step just taken ran the guard for `req` (and, when the guard called
\* next(), the handler up to its first await).
GuardJustRan(req) == req.kind \in Protected /\ req.ops = 0

SignedByServer(tok) ==
    IsJwt(tok) /\ tok.sig = Signature(tok.claims, SECRET_KEY)

\* C4: a Login with the email and password of a successful Register, the
\* store not faulting, answers 200 with a token; verified at once or at any
\* later time before its expiry, by jwt.verify and by the guard, the token
\* yields the registered email.
C4_LoginRoundTrip ==
    /\ (Done(last, "login") /\ ~last.fault /\ LoginValid(last.body)
        /\ ~NoMatch(last.body)
        /\ \E i \in 1..Len(okLog) : okLog[i] = last.body.email)
       => /\ last.res.status = 200
          /\ DOMAIN last.res = {"status", "token"}
          /\ ~jwtVerify(last.res.token, SECRET_KEY, now).err
          /\ jwtVerify(last.res.token, SECRET_KEY, now).user.email
               = last.body.email
    /\ \A g \in issued :
          SecondsOf(now) < g.token.claims.exp
          => /\ ~jwtVerify(g.token, SECRET_KEY, now).err
             /\ \E i \in 1..Len(users) :
                   jwtVerify(g.token, SECRET_KEY, now).user.email
                     = users[i].email
    /\ \A g \in issued :
          (GuardJustRan(last) /\ last.header = Bearer(g.token)
           /\ SecondsOf(now) < g.token.claims.exp)
          => /\ last.handler
             /\ \E i \in 1..Len(users) : last.user.email = users[i].email

\* The guard has just accepted, after the clock moved, the token a Login
\* gave the registered user.
C4_Witness ==
    /\ GuardJustRan(last) /\ last.handler
    /\ \E g \in issued :
          /\ last.header = Bearer(g.token)
          /\ now > g.at
          /\ last.user.email = users[1].email

\* C6 as stated: a token issued at clock reading t is accepted at every
\* reading before t + 1 hour and rejected from t + 1 hour on.
C6_LifetimeFromIssueInstant ==
    \A g \in issued :
        (GuardJustRan(last) /\ last.header = Bearer(g.token))
        => (last.handler <=> now < g.at + ExpiresIn * MsPerSecond)

\* C6 amended: a token issued at clock reading t is accepted while the
\* clock's whole second is below floor(t) + 3600 and rejected with 403
\* from that second on, its signature still being the server's.
C6_LifetimeInWholeSeconds ==
    \A g \in issued :
        (GuardJustRan(last) /\ last.header = Bearer(g.token))
        => /\ last.handler
                <=> SecondsOf(now) < SecondsOf(g.at) + ExpiresIn
           /\ ~last.handler => last.res = InvalidToken
           /\ SignedByServer(g.token)

\* The guard has just rejected a server-signed token in the second of its
\* expiry.
C6_Witness ==
    /\ GuardJustRan(last) /\ ~last.handler /\ last.res = InvalidToken
    /\ \E g \in issued :
          /\ last.header = Bearer(g.token)
          /\ SignedByServer(g.token)
          /\ SecondsOf(now) >= SecondsOf(g.at) + ExpiresIn

\* C7: the guard calls the handler only for a token that a Login issued,
\* unaltered, signed under the server secret and not expired, and then
\* req.user is that token's claims; a request it rejects has no identity
\* attached and has its 401 or 403.
C7_OnlyIssuedTokensPass ==
    GuardJustRan(last)
    => /\ last.handler
          => /\ TokenOf(last.header) \in Held
             /\ SignedByServer(TokenOf(last.header))
             /\ SecondsOf(now) < TokenOf(last.header).claims.exp
             /\ last.user = TokenOf(last.header).claims
             /\ last.res.status \notin {401, 403}
       /\ ~last.handler
          => /\ IsUndefined(last.user)
             /\ last.pc = "done"
             /\ last.res \in {TokenRequired, InvalidToken}

\* The guard has just rejected an unexpired token whose claims were changed
\* after signing.
C7_Witness ==
    /\ GuardJustRan(last) /\ ~last.handler /\ last.res = InvalidToken
    /\ IsUndefined(last.user)
    /\ ~FalsyHeader(last.header)
    /\ IsJwt(TokenOf(last.header))
    /\ \E t \in Held :
          /\ TokenOf(last.header).claims # t.claims
          /\ TokenOf(last.header).sig = t.sig
          /\ SecondsOf(now) < t.claims.exp

\* C8: on every protected endpoint a request without the header gets 401
\* 'Token required' and one with a well-formed token of a wrong signature
\* gets 403 'Invalid token'; the two differ in status and in message.
C8_MissingVersusInvalid ==
    /\ GuardJustRan(last)
       => /\ IsUndefined(last.header) => last.res = TokenRequired
          /\ (~FalsyHeader(last.header) /\ IsJwt(TokenOf(last.header))
              /\ ~SignedByServer(TokenOf(last.header)))
             => last.res = InvalidToken
    /\ TokenRequired.status # InvalidToken.status
    /\ TokenRequired.message # InvalidToken.message

\* POST /product with a token signed under another key has just been
\* answered 'Invalid token'.
C8_Witness ==
    /\ GuardJustRan(last) /\ last.kind = "product"
    /\ ~FalsyHeader(last.header)
    /\ IsJwt(TokenOf(last.header))
    /\ ~SignedByServer(TokenOf(last.header))
    /\ last.res = InvalidToken

\* C9: a protected handler runs only for a request whose token the guard
\* verified; a request answered 401 or 403 by the guard never reaches its
\* handler, makes no store operation and has exactly one response; no
\* request has more than one response.
C9_RejectedNeverReachesHandler ==
    /\ last.kind \in Protected
       => /\ last.handler
             => /\ ~IsUndefined(last.user)
                /\ SignedByServer(TokenOf(last.header))
                /\ last.user = TokenOf(last.header).claims
          /\ last.res.status \in {401, 403}
             => /\ ~last.handler /\ last.ops = 0
                /\ last.pc = "done" /\ last.sent = 1
          /\ last.pc = "done" => last.sent = 1
          /\ last.ops > 0 => last.handler
    /\ \A r \in ReqIds :
          reqs[r].kind \in Protected
          => reqs[r].handler /\ ~IsUndefined(reqs[r].user) /\ reqs[r].sent = 0

\* POST /product with a valid body and a token signed under another key has
\* just been rejected: no handler, no store operation, one response.
C9_Witness ==
    /\ last.kind = "product" /\ last.res = InvalidToken
    /\ ~FalsyStr(last.body, "name") /\ ~FalsyNum(last.body, "price")
    /\ ~last.handler /\ last.ops = 0 /\ last.sent = 1
    /\ products = <<>>

\* C10: every stored Product has the addedBy of the verified token of the
\* request that created it, whatever addedBy the request body carries.
C10_AddedByFromToken ==
    /\ (Done(last, "product") /\ last.res.status = 201)
       => /\ Len(products) >= 1
          /\ products[Len(products)] = last.res.product
          /\ SignedByServer(TokenOf(last.header))
          /\ last.res.product.addedBy = TokenOf(last.header).claims.email
    /\ \A i \in 1..Len(products) :
          \E t \in Held : products[i].addedBy = t.claims.email

\* A Product has just been stored for a request whose body carried another
\* addedBy than its token's email.
C10_Witness ==
    /\ Done(last, "product") /\ last.res.status = 201
    /\ "addedBy" \in DOMAIN last.body
    /\ last.body.addedBy # TokenOf(last.header).claims.email
    /\ products[Len(products)].addedBy = TokenOf(last.header).claims.email

\* C11: every way a token fails verification gets the one response 403
\* 'Invalid token': a header with no second part, text that is no JWT, a
\* signature that does not match, and a server-signed token that has
\* expired.
C11_VerificationFailureUniform ==
    (GuardJustRan(last) /\ ~FalsyHeader(last.header))
    => LET token == TokenOf(last.header)
       IN /\ ~IsJwt(token) => last.res = InvalidToken
          /\ (IsJwt(token) /\ ~SignedByServer(token))
             => last.res = InvalidToken
          /\ (SignedByServer(token)
              /\ SecondsOf(now) >= token.claims.exp)
             => last.res = InvalidToken
          /\ last.res.status \in {401, 403}
             => last.res = [status |-> 403, message |-> "Invalid token"]

\* The guard has just answered 'Invalid token' to a server-signed token
\* that has expired, as it does to text that is no JWT.
C11_Witness ==
    /\ GuardJustRan(last) /\ ~FalsyHeader(last.header)
    /\ SignedByServer(TokenOf(last.header))
    /\ SecondsOf(now) >= TokenOf(last.header).claims.exp
    /\ last.res = InvalidToken
    /\ authenticateToken(Bearer(Word("garbage")), now).res = last.res
    /\ authenticateToken(Header(<<Word("Bearer")>>), now).res = last.res

\* C12: a request whose store operation faults, in Register, Login or a
\* protected handler, answers 500 with the message 'Internal server error'
\* and nothing else (no detail, no token); the faulted operation is its
\* last one, and the request is over (not tried again).
C12_FaultAnswersGeneric500 ==
    /\ last.fault
       => /\ last.res.status = 500
          /\ DOMAIN last.res = {"status", "message"}
          /\ last.res.message = "Internal server error"
          /\ last.pc = "done" /\ last.sent = 1
          /\ last.ops <= (IF last.kind = "register" THEN 2 ELSE 1)
    /\ \A r \in ReqIds : ~reqs[r].fault

\* A Login with the right email and password has just been answered 500
\* because its lookup faulted.
C12_Witness ==
    /\ Done(last, "login") /\ last.fault /\ ~NoMatch(last.body)
    /\ last.res.status = 500 /\ last.ops = 1
    /\ issued = {}

RegisterRequired ==
    [status |-> 400, message |-> "Name, email, and password are required"]

LoginRequired ==
    [status |-> 400, message |-> "Email and password are required"]

\* C13: a Register with name, email or password absent or empty, and a
\* Login with email or password absent or empty, answers 400 with its
\* 'required' message without a store operation, also when the email is
\* registered; and a request waiting on the store has all its fields.
C13_ValidationBeforeStore ==
    /\ (last.kind = "register"
        /\ (FalsyStr(last.body, "name") \/ FalsyStr(last.body, "email")
            \/ FalsyStr(last.body, "password")))
       => /\ last.res = RegisterRequired
          /\ last.pc = "done" /\ last.ops = 0 /\ last.sent = 1
    /\ (last.kind = "login"
        /\ (FalsyStr(last.body, "email") \/ FalsyStr(last.body, "password")))
       => /\ last.res = LoginRequired
          /\ last.pc = "done" /\ last.ops = 0 /\ last.sent = 1
    /\ \A r \in ReqIds :
          /\ reqs[r].kind = "register"
             => ~(FalsyStr(reqs[r].body, "name")
                  \/ FalsyStr(reqs[r].body, "email")
                  \/ FalsyStr(reqs[r].body, "password"))
          /\ reqs[r].kind = "login"
             => ~(FalsyStr(reqs[r].body, "email")
                  \/ FalsyStr(reqs[r].body, "password"))

\* A Register with an empty name for an email that is registered has just
\* been answered 'required', the store untouched.
C13_Witness ==
    /\ Done(last, "register") /\ FalsyStr(last.body, "name")
    /\ ~FalsyStr(last.body, "email")
    /\ FindOneByEmail(users, last.body.email).found
    /\ last.res = RegisterRequired /\ last.ops = 0

\* C14: every request is atomic for its caller, under every interleaving.
\* A store changes only in the step in which a Register or a POST /product
\* answers 201, and then by exactly that request's document; a step that
\* answers 400, 401, 403 or 500 leaves both stores as they were, as every
\* earlier step of that request did.
C14_Atomic ==
    [][ /\ (users' # users \/ products' # products)
           => /\ last'.pc = "done" /\ last'.res.status = 201
              /\ last'.kind \in {"register", "product"}
        /\ (last'.pc = "done" /\ last'.res.status \in {400, 401, 403, 500})
           => /\ users' = users
              /\ products' = products
        /\ (last'.pc = "done" /\ last'.res.status = 201
            /\ last'.kind = "register")
           => /\ users' = Append(users, last'.doc)
              /\ products' = products
        /\ (last'.pc = "done" /\ last'.res.status = 201
            /\ last'.kind = "product")
           => /\ products' = Append(products, last'.doc)
              /\ users' = users
      ]_vars

\* A Register that passed the pre-check while its rival was between
\* pre-check and insert has just been answered an error; the store holds
\* the rival's record and nothing of the loser's.
C14_Witness ==
    /\ Done(last, "register") /\ last.raced /\ last.ops = 2
    /\ last.res.status \in {400, 500}
    /\ Len(users) = 1 /\ okLog = <<last.doc.email>>

\* The passwords in the User store.
StoredPasswords == { users[i].password : i \in 1..Len(users) }

\* C15: no response carries a stored password.  The 201 of Register is a
\* confirmation message alone, the 200 of Login is the token alone and the
\* token's claims are email, iat and exp; GET /users returns one entry per
\* User record, in order, with name and email and no password field; and
\* every other response is a status with a fixed message or a product.
C15_NoPasswordInResponse ==
    last.pc = "done"
    => /\ "password" \notin DOMAIN last.res
       /\ "message" \in DOMAIN last.res
          => last.res.message \notin StoredPasswords
       /\ (last.kind = "register" /\ last.res.status = 201)
          => last.res = [status |-> 201,
                         message |-> "User registered successfully"]
       /\ (last.kind = "login" /\ last.res.status = 200)
          => /\ DOMAIN last.res = {"status", "token"}
             /\ DOMAIN last.res.token.claims = {"email", "iat", "exp"}
             /\ last.res.token.claims.email \notin StoredPasswords
       /\ (last.kind = "users" /\ last.res.status = 200)
          => /\ Len(last.res.list) = Len(users)
             /\ \A i \in 1..Len(users) :
                   /\ DOMAIN last.res.list[i] = {"name", "email"}
                   /\ last.res.list[i].name = users[i].name
                   /\ last.res.list[i].email = users[i].email
       /\ "product" \in DOMAIN last.res
          => DOMAIN last.res.product = {"name", "price", "addedBy"}

\* GET /users has just returned the registered user's record without its
\* password.
C15_Witness ==
    /\ Done(last, "users") /\ last.res.status = 200
    /\ Len(users) >= 1 /\ Len(last.res.list) = Len(users)
    /\ users[1].password # ""
    /\ "password" \notin DOMAIN last.res.list[1]

\* C16: the User store changes only in the step in which a Register
\* answers 201, and then by one record appended that holds the request's
\* name, email and password as sent; every other step (Login, the guard,
\* POST /product, the listings, a failed Register) leaves it as it was, so
\* a stored record is never modified or deleted.
C16_UserStoreFrame ==
    [][ /\ users' # users
           => /\ last'.kind = "register" /\ last'.res.status = 201
              /\ users' = Append(users,
                                 [name |-> last'.body.name,
                                  email |-> last'.body.email,
                                  password |-> last'.body.password])
        /\ ~(last'.kind = "register" /\ last'.res.status = 201)
           => users' = users
        /\ Len(users') >= Len(users)
        /\ \A i \in 1..Len(users) : users'[i] = users[i]
      ]_vars

\* A Login has just given a token to the registered user, whose record is
\* as its Register sent it, and a Product has been stored since.
C16_Witness ==
    /\ Done(last, "login") /\ last.res.status = 200
    /\ products # <<>>
    /\ users = << [name |-> "Ann", email |-> last.body.email,
                   password |-> last.body.password] >>

\* The header has a value that is not empty and holds no space: one piece.
OnePiece(h) == IF FalsyHeader(h) THEN FALSE ELSE Len(h.text) = 1

\* C17: a header that is present and not empty but has no second
\* space-separated piece (a scheme word alone, a valid token alone) is
\* answered 403 'Invalid token' and does not reach the handler; 401 'Token
\* required' is the answer exactly when the header is absent or empty.
C17_OnePieceHeaderIsInvalid ==
    GuardJustRan(last)
    => /\ OnePiece(last.header)
          => /\ last.res = InvalidToken
             /\ ~last.handler /\ last.pc = "done"
       /\ last.res.status = 401
          <=> (IsUndefined(last.header) \/ last.header = Header(<<>>))

\* A token the server issued, sent with no scheme word in front, has just
\* been answered 'Invalid token'.
C17_Witness ==
    /\ GuardJustRan(last) /\ OnePiece(last.header)
    /\ last.header.text[1] \in Held
    /\ last.res = InvalidToken /\ ~last.handler

\* C18: on POST /product the guard decides before the fields are looked
\* at.  A request whose header is missing, or whose token is not one the
\* server signed, answers 401 or 403 whatever its body, never 400; the 400
\* 'Product name and price are required' is sent by the handler only, for
\* a request whose token was verified.
C18_GuardBeforeProductValidation ==
    (last.kind = "product" /\ last.ops = 0)
    => /\ FalsyHeader(last.header) => last.res.status = 401
       /\ (~FalsyHeader(last.header)
           /\ ~SignedByServer(TokenOf(last.header)))
          => last.res.status = 403
       /\ last.res.status = 400
          => /\ last.handler
             /\ ~FalsyHeader(last.header)
             /\ SignedByServer(TokenOf(last.header))
             /\ last.user = TokenOf(last.header).claims
             /\ last.res.message = "Product name and price are required"

\* A POST /product without a name and with a token signed under another
\* key has just been answered 403, its body not looked at.
C18_Witness ==
    /\ last.kind = "product" /\ last.pc = "done"
    /\ FalsyStr(last.body, "name")
    /\ ~FalsyHeader(last.header)
    /\ IsJwt(TokenOf(last.header))
    /\ ~SignedByServer(TokenOf(last.header))
    /\ last.res.status = 403 /\ ~last.handler

\* C19: the identity the guard attaches belongs to one request.  Every POST
\* /product in flight carries the claims of its own token and a document
\* whose addedBy is that token's email, whatever other requests are in
\* flight; and the Product a request has just stored has the addedBy of
\* that request's token.
C19_IdentityPerRequest ==
    /\ \A r \in ReqIds :
          reqs[r].kind = "product"
          => /\ reqs[r].user = TokenOf(reqs[r].header).claims
             /\ reqs[r].doc.addedBy = TokenOf(reqs[r].header).claims.email
    /\ (Done(last, "product") /\ last.res.status = 201)
       => /\ last.user = TokenOf(last.header).claims
          /\ products[Len(products)].addedBy
               = TokenOf(last.header).claims.email
          /\ last.res.product.addedBy = TokenOf(last.header).claims.email

\* A Product has just been stored for one user while a POST /product of
\* another user, which passed the guard as well, waits for its save.
C19_Witness ==
    /\ Done(last, "product") /\ last.res.status = 201
    /\ products[Len(products)].addedBy = TokenOf(last.header).claims.email
    /\ \E r \in ReqIds :
          /\ reqs[r].kind = "product" /\ reqs[r].pc = "save"
          /\ reqs[r].user.email # last.user.email

\* C20: the guard's decision is a function of the token, the secret and
\* the clock alone.  Whatever the User and Product stores hold and whatever
\* tokens were given out since, the guard lets a request through exactly
\* when its token carries the server's signature and the clock's second is
\* below the token's exp; so every token a Login gave out is accepted
\* until its expiry, and nothing the server processes revokes it.
C20_GuardIgnoresStores ==
    /\ (GuardJustRan(last) /\ ~FalsyHeader(last.header))
       => LET token == TokenOf(last.header)
          IN /\ last.handler
                <=> (IsJwt(token)
                     /\ token.sig = Signature(token.claims, SECRET_KEY)
                     /\ SecondsOf(now) < token.claims.exp)
             /\ last.handler => last.user = token.claims
    /\ \A g \in issued :
          (GuardJustRan(last) /\ last.header = Bearer(g.token)
           /\ SecondsOf(now) < g.token.claims.exp)
          => last.handler /\ last.res.status \notin {401, 403}

\* The guard has just accepted a token although a later Login gave the
\* same user a newer one and a Product was stored after the token was
\* signed.
C20_Witness ==
    /\ GuardJustRan(last) /\ last.handler
    /\ products # <<>>
    /\ \E g, h \in issued :
          /\ last.header = Bearer(g.token)
          /\ h.at > g.at
          /\ h.token.claims.email = g.token.claims.email
          /\ h.token.claims.iat > g.token.claims.iat

\* The header is a word, a space and one more piece.
TwoPieces(h) == IF FalsyHeader(h) THEN FALSE ELSE Len(h.text) = 2

\* C21: the guard does not look at the scheme word.  For a header '<word>
\* <token>' the request reaches the handler exactly when the token carries
\* the server's signature and has not expired, with the token's claims as
\* its identity, and is answered 403 otherwise, whatever the word is; so a
\* token a Login gave out passes after any word as it does after 'Bearer'.
C21_SchemeWordIgnored ==
    (GuardJustRan(last) /\ TwoPieces(last.header))
    => LET token == last.header.text[2]
           valid == /\ IsJwt(token)
                    /\ token.sig = Signature(token.claims, SECRET_KEY)
                    /\ SecondsOf(now) < token.claims.exp
       IN /\ last.handler <=> valid
          /\ valid => last.user = token.claims
          /\ ~valid => last.res = [status |-> 403,
                                   message |-> "Invalid token"]

\* A token the server issued, sent after the word 'Basic', has just been
\* let through to the handler with its claims attached.
C21_Witness ==
    /\ GuardJustRan(last) /\ TwoPieces(last.header)
    /\ last.header.text[1] = Word("Basic")
    /\ last.header.text[2] \in Held
    /\ last.handler /\ last.user = last.header.text[2].claims

ProductRequired ==
    [status |-> 400, message |-> "Product name and price are required"]

\* The body has a name that is not empty and the price 0.
PriceZero(body) ==
    /\ "name" \in DOMAIN body /\ body.name # ""
    /\ "price" \in DOMAIN body /\ body.price = 0

\* C22: a POST /product with a verified token, a name that is not empty
\* and the price 0 answers 400 'Product name and price are required' from
\* its handler without a store operation; no such request ever waits on a
\* save and no stored Product has the price 0.
C22_PriceZeroIsMissing ==
    /\ (last.kind = "product" /\ last.handler /\ PriceZero(last.body))
       => /\ last.res = ProductRequired
          /\ last.pc = "done" /\ last.ops = 0 /\ last.sent = 1
    /\ \A r \in ReqIds :
          reqs[r].kind = "product" => ~PriceZero(reqs[r].body)
    /\ \A i \in 1..Len(products) : products[i].price # 0

\* A POST /product for a pen of price 0, carrying a token the server
\* issued, has just been answered 'required'.
C22_Witness ==
    /\ Done(last, "product") /\ last.handler
    /\ last.header.text[2] \in Held
    /\ PriceZero(last.body)
    /\ last.res = ProductRequired /\ last.ops = 0

====
